---- MODULE Spec2Model ----
(***************************************************************************)
(* Ad ingestion and normalization pipeline of backend/app.py:             *)
(* _normalize_ad, _seed_sample_data, lifespan, fetch_ads and reseed_data.  *)
(*                                                                         *)
(* Python's None is the empty sequence <<>> and a present value v is <<v>>.*)
(* Time is counted in half days since an arbitrary epoch, so that          *)
(* timedelta.days (a floor) differs from the raw difference.               *)
(***************************************************************************)
EXTENDS Integers, Sequences, FiniteSets

VARIABLES
    META_ACCESS_TOKEN, \* process-level credential, "" when not configured
    store,             \* rows of the AdRecord table
    now,               \* datetime.utcnow(), in half days
    pc,                \* position of the running handler
    brands_to_fetch,   \* fetch_ads: brand keys in scope
    bi,                \* index of the current brand in brands_to_fetch
    ci,                \* index of the current competitor in the brand
    ads,               \* raw records being iterated
    ai,                \* index of the next record of ads
    count,             \* fetch_ads: count
    errors,            \* fetch_ads: errors
    response,          \* what the last handler gave its caller
    ad,                \* raw record last given to _normalize_ad, with context
    ad_data,           \* <<output of the last _normalize_ad>> or <<>>
    log                \* history of the running batch and of the upserts

vars == <<META_ACCESS_TOKEN, store, now, pc, brands_to_fetch, bi, ci, ads, ai,
          count, errors, response, ad, ad_data, log>>

-----------------------------------------------------------------------------
(* Python values *)

None == <<>>

Some(v) == <<v>>

\* a string that is None or absent from the mapping
NoStr == [s |-> "none", t |-> 0, sfx |-> ""]

\* an ISO-8601 string of wall-clock reading t with UTC-offset suffix sfx
Iso(t, sfx) == [s |-> "iso", t |-> t, sfx |-> sfx]

\* the empty string, and a string that is no timestamp
EmptyStr == [s |-> "empty", t |-> 0, sfx |-> ""]

BadStr == [s |-> "bad", t |-> 0, sfx |-> ""]

\* Python truthiness of a string-or-None
Truthy(str) == str.s \notin {"none", "empty"}

\* a or b  on strings
OrStr(a, b) == IF Truthy(a) THEN a ELSE b

\* timedelta(...).days for a difference d in half days: a floor
Days(d) == d \div 2

-----------------------------------------------------------------------------
(* _normalize_ad *)

\* parse_dt: None for a falsy or unparseable string; otherwise the reading
\* with its offset dropped (replace(tzinfo=None) does not convert to UTC)
parse_dt(str) ==
    IF ~Truthy(str) THEN None
    ELSE IF str.s = "iso" THEN Some(str.t)
    ELSE None

TopPerformerDays == 30

\* RunDaysOf with the delivery-stop time forgotten
RunDaysOf_NoStop(raw, start_time, stop_time, utcnow) ==
    IF raw._run_days # None THEN raw._run_days
    ELSE IF start_time # None
         THEN Some(Days(utcnow - start_time[1]))
         ELSE None

\* run_days as lines 110-113 leave it: the override, else the computed days,
\* else None
RunDaysOf(raw, start_time, stop_time, utcnow) ==
    IF raw._run_days # None THEN raw._run_days
    ELSE IF start_time # None
         THEN LET end == IF stop_time # None THEN stop_time[1] ELSE utcnow
              IN  Some(Days(end - start_time[1]))
         ELSE None

\* IsTopPerformer with the threshold included
IsTopPerformer_AtLeast(run_days) ==
    IF run_days # None /\ run_days[1] # 0
    THEN run_days[1] >= TopPerformerDays
    ELSE FALSE

\* run_days > 30 if run_days else False
IsTopPerformer(run_days) ==
    IF run_days # None /\ run_days[1] # 0
    THEN run_days[1] > TopPerformerDays
    ELSE FALSE

\* the record _normalize_ad returns; its text, media, spend and impression
\* fields are copied or parsed from the raw record alone and are left out
normalize_ad(raw, brand_key, competitor_name, utcnow) ==
    LET start_time == parse_dt(OrStr(raw.ad_delivery_start_time, raw.ad_creation_time))
        stop_time  == parse_dt(raw.ad_delivery_stop_time)
        is_active  == IF raw._is_active # None THEN raw._is_active[1]
                      ELSE stop_time = None
        run_days   == RunDaysOf(raw, start_time, stop_time, utcnow)
    IN  [id |-> IF raw.id # None THEN raw.id[1]
                ELSE <<competitor_name, "ad", utcnow>>,
         brand_key |-> brand_key,
         competitor_name |-> competitor_name,
         ad_creation_time |-> parse_dt(raw.ad_creation_time),
         ad_delivery_start_time |-> start_time,
         ad_delivery_stop_time |-> stop_time,
         is_active |-> is_active,
         run_days |-> IF run_days # None /\ run_days[1] # 0 THEN run_days[1] ELSE 0,
         is_top_performer |-> IsTopPerformer(run_days),
         is_sample |-> IF raw._is_sample # None THEN raw._is_sample[1] ELSE FALSE]

-----------------------------------------------------------------------------
(* Collaborators whose code is outside backend/app.py *)

\* competitors.BRANDS: brand key -> names of the configured competitors
BRANDS == [man_matters |-> <<"traya", "bombay_shaving">>,
           bebodywise  |-> <<"plum">>]

\* list(BRANDS.keys())
BrandKeys == <<"man_matters", "bebodywise">>

RECURSIVE Flatten(_)
Flatten(seqs) ==
    IF Len(seqs) = 0 THEN <<>> ELSE Head(seqs) \o Flatten(Tail(seqs))

\* how many records seed_all_sample_data makes per competitor
SeedCount == 2

\* how many records the live client may return for one competitor
MaxLiveAds == 2

\* operations (fetch, reseed, restart) after the first startup
MaxOps == 2

\* upserts that may raise within one batch
MaxUpsertFailures == 1

\* fetch_ads calls that reach the live loops
MaxLiveFetches == 1

\* upsert_ad may raise on the first MaxFailIndex records of a list only
MaxFailIndex == 2

\* the generator draws its values at random: two draws are told apart
GenVariants == {1, 2}

SampleRunDays(v, i) ==
    IF v = 1 THEN (IF i % 2 = 1 THEN 45 ELSE 7)
    ELSE (IF i % 2 = 1 THEN 30 ELSE 0)

BlankAd ==
    [id |-> None,
     ad_delivery_start_time |-> NoStr,
     ad_creation_time |-> NoStr,
     ad_delivery_stop_time |-> NoStr,
     _is_active |-> None,
     _run_days |-> None,
     _is_sample |-> None,
     _brand_key |-> None,
     _competitor |-> None]

\* sample_data.generate_sample_ads(name, brand_key, count), draw v
generate_sample_ads(name, bk, n, v) ==
    [i \in 1..n |->
        [BlankAd EXCEPT
            !.id = Some(<<name, "sample", i>>),
            !.ad_delivery_start_time = IF v = 2 THEN Iso(i, "Z") ELSE NoStr,
            !._is_active = Some(i % 3 # 0),
            !._run_days = Some(SampleRunDays(v, i)),
            !._is_sample = IF v = 2 THEN Some(TRUE) ELSE None]]

\* the (brand key, competitor) pairs of the brands keys, in iteration order
CompetitorPairs(keys) ==
    Flatten([k \in 1..Len(keys) |->
                [j \in 1..Len(BRANDS[keys[k]]) |-> <<keys[k], BRANDS[keys[k]][j]>>]])

\* sample_data.seed_all_sample_data(BRANDS), draw v
seed_all_sample_data(v) ==
    LET pairs == CompetitorPairs(BrandKeys)
    IN  Flatten([p \in 1..Len(pairs) |->
            LET g == generate_sample_ads(pairs[p][2], pairs[p][1], SeedCount, v)
            IN  [i \in 1..Len(g) |->
                    [g[i] EXCEPT !._brand_key = Some(pairs[p][1]),
                                 !._competitor = Some(pairs[p][2])]]])

\* MetaAdLibraryClient.fetch_all_ads_for_competitor returning n records
LiveAds(name, n) ==
    [j \in 1..n |->
        [BlankAd EXCEPT
            !.id = Some(<<name, "live", j>>),
            !.ad_delivery_start_time =
                IF j % 3 = 1 THEN Iso(4, "+0000")
                ELSE IF j % 3 = 2 THEN NoStr ELSE EmptyStr,
            !.ad_creation_time =
                IF j % 3 = 1 THEN Iso(0, "Z")
                ELSE IF j % 3 = 2 THEN NoStr ELSE Iso(20, "Z"),
            !.ad_delivery_stop_time =
                IF j % 3 = 1 THEN NoStr ELSE Iso(11, "+05:30")]]

\* database.upsert_ad when it does not raise: insert or replace by id
upsert_ad(st, rec) == {r \in st : r.id # rec.id} \cup {rec}

-----------------------------------------------------------------------------
(* State shared by the handlers *)

SampleCountNoToken == 15

SampleCountFallback == 10

ErrorCap == 5

\* a map from ad id to record, as a function
Put(m, rec) ==
    [i \in DOMAIN m \cup {rec.id} |-> IF i = rec.id THEN rec ELSE m[i]]

Range(m) == {m[i] : i \in DOMAIN m}

NoResponse ==
    [kind |-> "none", status |-> "", source |-> "", ads_loaded |-> 0,
     errors |-> <<>>, ads_seeded |-> 0]

LogInit ==
    [kind |-> "none",        \* which batch is or was last running
     store0 |-> {},          \* the store when the batch began
     validate_calls |-> 0,   \* calls of client.validate_token
     live_calls |-> 0,       \* calls of fetch_all_ads_for_competitor
     sample_calls |-> 0,     \* calls of generate_sample_ads
     obtained |-> 0,         \* raw records the batch has obtained
     attempts |-> 0,         \* calls of upsert_ad
     failed |-> 0,           \* calls of upsert_ad that raised
     upserted |-> <<>>,      \* id -> record last upserted by this batch
     raised |-> {},          \* competitors whose live fetch raised
     empty |-> {},           \* competitors whose live fetch returned nothing
     sampled |-> {},         \* competitors generate_sample_ads was called for
     live |-> {},            \* competitors whose live fetch returned records
     last_ok |-> <<>>,       \* id -> record of the last upsert that succeeded
     ops |-> 0,              \* operations begun after the first startup
     live_fetches |-> 0]     \* fetch_ads calls that reached the live loops

BeginBatch(kind, op) ==
    [LogInit EXCEPT !.kind = kind, !.store0 = store,
                    !.last_ok = log.last_ok, !.ops = log.ops + op,
                    !.live_fetches = log.live_fetches]

\* the log after upsert_ad(rec) returned (ok) or raised
Logged(l, rec, ok) ==
    [l EXCEPT !.attempts = @ + 1,
              !.failed = IF ok THEN @ ELSE @ + 1,
              !.upserted = IF ok THEN Put(@, rec) ELSE @,
              !.last_ok = IF ok THEN Put(@, rec) ELSE @]

\* TryUpsert with a plain insert in place of the upsert
TryUpsert_Insert(st, rec, ok) == IF ok THEN st \cup {rec} ELSE st

\* upsert_ad either returns or raises; a raise leaves the table as it was
TryUpsert(st, rec, ok) == IF ok THEN upsert_ad(st, rec) ELSE st

\* whether the call of upsert_ad for the record at index i may raise
MayRaise(ok, i) == ok \/ (log.failed < MaxUpsertFailures /\ i <= MaxFailIndex)

\* half a day passes between two operations
Later(t) == t + 1

Init ==
    /\ META_ACCESS_TOKEN \in {"", "token"}
    /\ store = {}
    /\ now = 64
    /\ pc = "boot"
    /\ brands_to_fetch = <<>>
    /\ bi = 1
    /\ ci = 1
    /\ ads = <<>>
    /\ ai = 0
    /\ count = 0
    /\ errors = <<>>
    /\ response = NoResponse
    /\ ad = [raw |-> BlankAd, brand_key |-> "", competitor_name |-> ""]
    /\ ad_data = None
    /\ log = LogInit

-----------------------------------------------------------------------------
(* lifespan, _seed_sample_data, reseed_data *)

\* lifespan with an empty table: seed
StartupSeed ==
    /\ pc = "boot"
    /\ Cardinality(store) = 0
    /\ \E v \in GenVariants : ads' = seed_all_sample_data(v)
    /\ ai' = 1
    /\ pc' = "seed"
    /\ log' = [BeginBatch("startup", 0) EXCEPT !.sample_calls = 1,
                                               !.obtained = Len(ads')]
    /\ UNCHANGED <<META_ACCESS_TOKEN, store, now, brands_to_fetch, bi, ci,
                   count, errors, response, ad, ad_data>>

\* lifespan with rows in the table: nothing to do
StartupSkip ==
    /\ pc = "boot"
    /\ Cardinality(store) # 0
    /\ pc' = "idle"
    /\ log' = BeginBatch("startup", 0)
    /\ UNCHANGED <<META_ACCESS_TOKEN, store, now, brands_to_fetch, bi, ci, ads,
                   ai, count, errors, response, ad, ad_data>>

\* one turn of the loop of _seed_sample_data
SeedUpsert ==
    /\ pc = "seed"
    /\ ai \in 1..Len(ads)
    /\ LET raw == ads[ai]
           bk  == raw._brand_key[1]
           cn  == raw._competitor[1]
           rec == normalize_ad(raw, bk, cn, now)
       IN  /\ ad' = [raw |-> raw, brand_key |-> bk, competitor_name |-> cn]
           /\ ad_data' = Some(rec)
           /\ \E ok \in BOOLEAN :
                 /\ MayRaise(ok, raw.id[1][3])
                 /\ store' = TryUpsert(store, rec, ok)
                 /\ log' = Logged(log, rec, ok)
    /\ ai' = ai + 1
    /\ UNCHANGED <<META_ACCESS_TOKEN, now, pc, brands_to_fetch, bi, ci, ads,
                   count, errors, response>>

\* _seed_sample_data returns to lifespan
StartupDone ==
    /\ pc = "seed"
    /\ log.kind = "startup"
    /\ ai > Len(ads)
    /\ pc' = "idle"
    /\ ads' = <<>>
    /\ ai' = 0
    /\ UNCHANGED <<META_ACCESS_TOKEN, store, now, brands_to_fetch, bi, ci,
                   count, errors, response, ad, ad_data, log>>

\* ReseedDelete with the delete left out
ReseedDelete_Keep(st) == st

\* db.query(AdRecord).delete(); db.commit()
ReseedDelete(st) == {}

\* reseed_data up to the call of _seed_sample_data
reseed_data ==
    /\ pc = "idle"
    /\ log.ops < MaxOps
    /\ store' = ReseedDelete(store)
    /\ now' = Later(now)
    /\ \E v \in GenVariants : ads' = seed_all_sample_data(v)
    /\ ai' = 1
    /\ pc' = "seed"
    /\ log' = [BeginBatch("reseed", 1) EXCEPT !.sample_calls = 1,
                                              !.obtained = Len(ads')]
    /\ response' = NoResponse
    /\ UNCHANGED <<META_ACCESS_TOKEN, brands_to_fetch, bi, ci, count, errors,
                   ad, ad_data>>

\* _seed_sample_data returns to reseed_data, which counts the rows
ReseedReturn ==
    /\ pc = "seed"
    /\ log.kind = "reseed"
    /\ ai > Len(ads)
    /\ response' = [NoResponse EXCEPT !.kind = "return", !.status = "ok",
                                      !.ads_seeded = Cardinality(store)]
    /\ pc' = "idle"
    /\ ads' = <<>>
    /\ ai' = 0
    /\ UNCHANGED <<META_ACCESS_TOKEN, store, now, brands_to_fetch, bi, ci,
                   count, errors, ad, ad_data, log>>

\* the process is stopped and started again; the table is on disk
Restart ==
    /\ pc = "idle"
    /\ log.ops < MaxOps
    /\ pc' = "boot"
    /\ log' = [log EXCEPT !.ops = @ + 1]
    /\ response' = NoResponse
    /\ UNCHANGED <<META_ACCESS_TOKEN, store, now, brands_to_fetch, bi, ci, ads,
                   ai, count, errors, ad, ad_data>>

-----------------------------------------------------------------------------
(* fetch_ads *)

\* the brand_key query parameter: absent, a configured key or any other string
BrandKeyArgs == {None, Some("man_matters"), Some("bebodywise"), Some("other")}

\* brands_to_fetch = [brand_key] if brand_key else list(BRANDS.keys())
Scope(brand_key) == IF brand_key # None THEN <<brand_key[1]>> ELSE BrandKeys

CurBrand == brands_to_fetch[bi]

CurComp == BRANDS[CurBrand][ci]

\* the loops stand before the competitor ci of the brand bi
AtCompetitor ==
    /\ ai = 0
    /\ bi <= Len(brands_to_fetch)
    /\ CurBrand \in DOMAIN BRANDS
    /\ ci <= Len(BRANDS[CurBrand])

\* the inner loop of a brand is over
AtBrandEnd ==
    /\ ai = 0
    /\ bi <= Len(brands_to_fetch)
    /\ CurBrand \in DOMAIN BRANDS
    /\ ci > Len(BRANDS[CurBrand])

\* BRANDS[bk] raises KeyError
AtUnknownBrand ==
    /\ ai = 0
    /\ bi <= Len(brands_to_fetch)
    /\ CurBrand \notin DOMAIN BRANDS

Exception == [NoResponse EXCEPT !.kind = "exception"]

\* fetch_ads without META_ACCESS_TOKEN, up to the loops
FetchNoToken ==
    /\ pc = "idle"
    /\ log.ops < MaxOps
    /\ META_ACCESS_TOKEN = ""
    /\ \E brand_key \in BrandKeyArgs : brands_to_fetch' = Scope(brand_key)
    /\ now' = Later(now)
    /\ count' = 0
    /\ errors' = <<>>
    /\ bi' = 1
    /\ ci' = 1
    /\ ads' = <<>>
    /\ ai' = 0
    /\ pc' = "sample"
    /\ response' = NoResponse
    /\ log' = BeginBatch("fetch_sample", 1)
    /\ UNCHANGED <<META_ACCESS_TOKEN, store, ad, ad_data>>

\* ads = generate_sample_ads(comp["name"], bk, count=15)
SampleGenerate ==
    /\ pc = "sample"
    /\ AtCompetitor
    /\ \E v \in GenVariants :
          ads' = generate_sample_ads(CurComp, CurBrand, SampleCountNoToken, v)
    /\ ai' = 1
    /\ log' = [log EXCEPT !.sample_calls = @ + 1,
                          !.obtained = @ + Len(ads'),
                          !.sampled = @ \cup {CurComp}]
    /\ UNCHANGED <<META_ACCESS_TOKEN, store, now, pc, brands_to_fetch, bi, ci,
                   count, errors, response, ad, ad_data>>

\* one turn of the innermost loop of the branch without a token; nothing
\* catches what upsert_ad raises
SampleUpsert ==
    /\ pc = "sample"
    /\ ai \in 1..Len(ads)
    /\ LET rec == normalize_ad(ads[ai], CurBrand, CurComp, now)
       IN  /\ ad' = [raw |-> ads[ai], brand_key |-> CurBrand,
                     competitor_name |-> CurComp]
           /\ ad_data' = Some(rec)
           /\ \E ok \in BOOLEAN :
                 /\ MayRaise(ok, ai)
                 /\ store' = TryUpsert(store, rec, ok)
                 /\ log' = Logged(log, rec, ok)
                 /\ IF ok
                    THEN /\ count' = count + 1
                         /\ IF ai = Len(ads)
                            THEN ci' = ci + 1 /\ ai' = 0 /\ ads' = <<>>
                            ELSE ai' = ai + 1 /\ UNCHANGED <<ci, ads>>
                         /\ UNCHANGED <<pc, response>>
                    ELSE /\ response' = Exception
                         /\ pc' = "idle"
                         /\ ai' = 0
                         /\ ads' = <<>>
                         /\ UNCHANGED <<count, ci>>
    /\ UNCHANGED <<META_ACCESS_TOKEN, now, brands_to_fetch, bi, errors>>

SampleNextBrand ==
    /\ pc = "sample"
    /\ AtBrandEnd
    /\ bi' = bi + 1
    /\ ci' = 1
    /\ UNCHANGED <<META_ACCESS_TOKEN, store, now, pc, brands_to_fetch, ads, ai,
                   count, errors, response, ad, ad_data, log>>

\* brand_data = BRANDS[bk] for a key that is not configured
SampleKeyError ==
    /\ pc = "sample"
    /\ AtUnknownBrand
    /\ response' = Exception
    /\ pc' = "idle"
    /\ UNCHANGED <<META_ACCESS_TOKEN, store, now, brands_to_fetch, bi, ci, ads,
                   ai, count, errors, ad, ad_data, log>>

\* SampleResponse reporting one record too many
SampleResponse_OffByOne(n) ==
    [NoResponse EXCEPT !.kind = "return", !.status = "success",
                       !.source = "sample_data", !.ads_loaded = n + 1]

\* the return of line 321
SampleResponse(n) ==
    [NoResponse EXCEPT !.kind = "return", !.status = "success",
                       !.source = "sample_data", !.ads_loaded = n]

SampleReturn ==
    /\ pc = "sample"
    /\ ai = 0
    /\ bi > Len(brands_to_fetch)
    /\ response' = SampleResponse(count)
    /\ pc' = "idle"
    /\ UNCHANGED <<META_ACCESS_TOKEN, store, now, brands_to_fetch, bi, ci, ads,
                   ai, count, errors, ad, ad_data, log>>

\* FetchInvalidToken with the validation moved behind the first live fetch
FetchInvalidToken_Late ==
    /\ pc = "idle"
    /\ log.ops < MaxOps
    /\ META_ACCESS_TOKEN # ""
    /\ \E brand_key \in BrandKeyArgs : brands_to_fetch' = Scope(brand_key)
    /\ response' = [NoResponse EXCEPT !.kind = "http401"]
    /\ LET rec == normalize_ad(LiveAds("traya", 1)[1], "man_matters", "traya", now)
       IN  /\ store' = TryUpsert(store, rec, TRUE)
           /\ log' = Logged([BeginBatch("fetch_live", 1) EXCEPT
                                 !.validate_calls = 1, !.live_calls = 1,
                                 !.obtained = 1, !.live = {"traya"}],
                            rec, TRUE)
    /\ UNCHANGED <<META_ACCESS_TOKEN, now, pc, bi, ci, ads, ai, count, errors,
                   ad, ad_data>>

\* fetch_ads with a token that validate_token rejects: HTTPException(401)
FetchInvalidToken ==
    /\ pc = "idle"
    /\ log.ops < MaxOps
    /\ META_ACCESS_TOKEN # ""
    /\ \E brand_key \in BrandKeyArgs : brands_to_fetch' = Scope(brand_key)
    /\ response' = [NoResponse EXCEPT !.kind = "http401"]
    /\ log' = [BeginBatch("fetch_live", 1) EXCEPT !.validate_calls = 1]
    /\ UNCHANGED <<META_ACCESS_TOKEN, store, now, pc, bi, ci, ads, ai, count,
                   errors, ad, ad_data>>

\* fetch_ads with a token that validate_token accepts, up to the loops
FetchValidToken ==
    /\ pc = "idle"
    /\ log.ops < MaxOps
    /\ log.live_fetches < MaxLiveFetches
    /\ META_ACCESS_TOKEN # ""
    /\ \E brand_key \in BrandKeyArgs : brands_to_fetch' = Scope(brand_key)
    /\ now' = Later(now)
    /\ count' = 0
    /\ errors' = <<>>
    /\ bi' = 1
    /\ ci' = 1
    /\ ads' = <<>>
    /\ ai' = 0
    /\ pc' = "live"
    /\ response' = NoResponse
    /\ log' = [BeginBatch("fetch_live", 1) EXCEPT !.validate_calls = 1,
                                                  !.live_fetches = @ + 1]
    /\ UNCHANGED <<META_ACCESS_TOKEN, store, ad, ad_data>>

\* MarkSample with the flag left as the generator made it
MarkSample_Skip(raws) == raws

\* for ad in ads: ad["_is_sample"] = True
MarkSample(raws) ==
    [i \in 1..Len(raws) |-> [raws[i] EXCEPT !._is_sample = Some(TRUE)]]

\* OnError with the message logged but not recorded
OnError_Drop(errs, name, what) == errs

\* errors.append(f"{comp['name']}: {str(e)}")
OnError(errs, name, what) == Append(errs, [name |-> name, what |-> what])

\* client.fetch_all_ads_for_competitor raises (n = -1) or returns n records;
\* an empty result is replaced by ten sample records
LiveFetch ==
    /\ pc = "live"
    /\ AtCompetitor
    /\ \E n \in -1..MaxLiveAds :
          \/ /\ n = -1
             /\ errors' = OnError(errors, CurComp, "fetch")
             /\ ci' = ci + 1
             /\ log' = [log EXCEPT !.live_calls = @ + 1,
                                   !.raised = @ \cup {CurComp}]
             /\ UNCHANGED <<ads, ai>>
          \/ /\ n = 0
             /\ \E v \in GenVariants :
                   ads' = MarkSample(generate_sample_ads(CurComp, CurBrand,
                                                         SampleCountFallback, v))
             /\ ai' = 1
             /\ log' = [log EXCEPT !.live_calls = @ + 1,
                                   !.sample_calls = @ + 1,
                                   !.obtained = @ + Len(ads'),
                                   !.sampled = @ \cup {CurComp},
                                   !.empty = @ \cup {CurComp}]
             /\ UNCHANGED <<errors, ci>>
          \/ /\ n > 0
             /\ ads' = LiveAds(CurComp, n)
             /\ ai' = 1
             /\ log' = [log EXCEPT !.live_calls = @ + 1,
                                   !.obtained = @ + Len(ads'),
                                   !.live = @ \cup {CurComp}]
             /\ UNCHANGED <<errors, ci>>
    /\ UNCHANGED <<META_ACCESS_TOKEN, store, now, pc, brands_to_fetch, bi,
                   count, response, ad, ad_data>>

\* one turn of the innermost loop of the live branch; what upsert_ad raises
\* is caught by the except of the competitor
LiveUpsert ==
    /\ pc = "live"
    /\ ai \in 1..Len(ads)
    /\ LET rec == normalize_ad(ads[ai], CurBrand, CurComp, now)
       IN  /\ ad' = [raw |-> ads[ai], brand_key |-> CurBrand,
                     competitor_name |-> CurComp]
           /\ ad_data' = Some(rec)
           /\ \E ok \in BOOLEAN :
                 /\ MayRaise(ok, ai)
                 /\ store' = TryUpsert(store, rec, ok)
                 /\ log' = Logged(log, rec, ok)
                 /\ IF ok
                    THEN /\ count' = count + 1
                         /\ IF ai = Len(ads)
                            THEN ci' = ci + 1 /\ ai' = 0 /\ ads' = <<>>
                            ELSE ai' = ai + 1 /\ UNCHANGED <<ci, ads>>
                         /\ UNCHANGED errors
                    ELSE /\ errors' = OnError(errors, CurComp, "upsert")
                         /\ ci' = ci + 1
                         /\ ai' = 0
                         /\ ads' = <<>>
                         /\ UNCHANGED count
    /\ UNCHANGED <<META_ACCESS_TOKEN, now, pc, brands_to_fetch, bi, response>>

LiveNextBrand ==
    /\ pc = "live"
    /\ AtBrandEnd
    /\ bi' = bi + 1
    /\ ci' = 1
    /\ UNCHANGED <<META_ACCESS_TOKEN, store, now, pc, brands_to_fetch, ads, ai,
                   count, errors, response, ad, ad_data, log>>

\* brand_data = BRANDS[bk] for a key that is not configured, outside the try
LiveKeyError ==
    /\ pc = "live"
    /\ AtUnknownBrand
    /\ response' = Exception
    /\ pc' = "idle"
    /\ UNCHANGED <<META_ACCESS_TOKEN, store, now, brands_to_fetch, bi, ci, ads,
                   ai, count, errors, ad, ad_data, log>>

\* errors[:5]
Truncated(errs) ==
    SubSeq(errs, 1, IF Len(errs) < ErrorCap THEN Len(errs) ELSE ErrorCap)

\* the return of lines 355-359
LiveResponse(n, errs) ==
    [NoResponse EXCEPT !.kind = "return",
                       !.status = IF errs = <<>> THEN "success" ELSE "partial",
                       !.ads_loaded = n,
                       !.errors = Truncated(errs)]

LiveReturn ==
    /\ pc = "live"
    /\ ai = 0
    /\ bi > Len(brands_to_fetch)
    /\ response' = LiveResponse(count, errors)
    /\ pc' = "idle"
    /\ UNCHANGED <<META_ACCESS_TOKEN, store, now, brands_to_fetch, bi, ci, ads,
                   ai, count, errors, ad, ad_data, log>>

-----------------------------------------------------------------------------
(* Specifications *)

Next ==
    \/ StartupSeed
    \/ StartupSkip
    \/ SeedUpsert
    \/ StartupDone
    \/ reseed_data
    \/ ReseedReturn
    \/ Restart
    \/ FetchNoToken
    \/ SampleGenerate
    \/ SampleUpsert
    \/ SampleNextBrand
    \/ SampleKeyError
    \/ SampleReturn
    \/ FetchInvalidToken
    \/ FetchValidToken
    \/ LiveFetch
    \/ LiveUpsert
    \/ LiveNextBrand
    \/ LiveKeyError
    \/ LiveReturn

Spec == Init /\ [][Next]_vars

\* the process runs without META_ACCESS_TOKEN
InitSample == Init /\ META_ACCESS_TOKEN = ""

NextSample ==
    \/ StartupSeed
    \/ StartupSkip
    \/ SeedUpsert
    \/ StartupDone
    \/ reseed_data
    \/ ReseedReturn
    \/ Restart
    \/ FetchNoToken
    \/ SampleGenerate
    \/ SampleUpsert
    \/ SampleNextBrand
    \/ SampleKeyError
    \/ SampleReturn

SpecSample == InitSample /\ [][NextSample]_vars

\* the process runs with META_ACCESS_TOKEN set
InitLive == Init /\ META_ACCESS_TOKEN # ""

NextLive ==
    \/ StartupSeed
    \/ StartupSkip
    \/ SeedUpsert
    \/ StartupDone
    \/ reseed_data
    \/ ReseedReturn
    \/ Restart
    \/ FetchInvalidToken
    \/ FetchValidToken
    \/ LiveFetch
    \/ LiveUpsert
    \/ LiveNextBrand
    \/ LiveKeyError
    \/ LiveReturn

SpecLive == InitLive /\ [][NextLive]_vars

-----------------------------------------------------------------------------
(* _normalize_ad alone, on one raw record drawn from RawAds *)

StartStrings ==
    {NoStr, EmptyStr, BadStr, Iso(1, "Z"), Iso(4, "+0000"), Iso(5, "+05:30"),
     Iso(70, "+00:00")}

CreationStrings == {NoStr, BadStr, Iso(0, "Z")}

StopStrings == {NoStr, BadStr, Iso(11, "+0000"), Iso(66, "Z")}

RawAds ==
    [id : {None, Some(<<"traya", "live", 1>>)},
     ad_delivery_start_time : StartStrings,
     ad_creation_time : CreationStrings,
     ad_delivery_stop_time : StopStrings,
     _is_active : {None, Some(FALSE)},
     _run_days : {None, Some(0), Some(30), Some(31), Some(-1)},
     _is_sample : {None, Some(TRUE)},
     _brand_key : {None},
     _competitor : {None}]

InitNorm ==
    /\ META_ACCESS_TOKEN = ""
    /\ store = {}
    /\ now \in {64, 65}
    /\ pc = "normalize"
    /\ brands_to_fetch = <<>>
    /\ bi = 1
    /\ ci = 1
    /\ ads = <<>>
    /\ ai = 0
    /\ count = 0
    /\ errors = <<>>
    /\ response = NoResponse
    /\ ad \in [raw : RawAds, brand_key : {"man_matters"},
               competitor_name : {"traya"}]
    /\ ad_data = None
    /\ log = LogInit

Normalize ==
    /\ pc = "normalize"
    /\ ad_data' = Some(normalize_ad(ad.raw, ad.brand_key, ad.competitor_name, now))
    /\ pc' = "normalized"
    /\ UNCHANGED <<META_ACCESS_TOKEN, store, now, brands_to_fetch, bi, ci, ads,
                   ai, count, errors, response, ad, log>>

SpecNorm == InitNorm /\ [][Normalize]_vars

-----------------------------------------------------------------------------
(* Properties *)

\* the competitors of the brands in scope
InScope ==
    LET known == SelectSeq(brands_to_fetch, LAMBDA k : k \in DOMAIN BRANDS)
    IN  {p[2] : p \in Range(CompetitorPairs(known))}

\* the rows of the table the running batch wrote
Persisted == {r \in store : r.id \in DOMAIN log.upserted}

\* records of the running batch whose upsert succeeded
Succeeded == log.attempts - log.failed

BatchOver == pc = "idle" /\ response.kind # "none"

\* C1: when an upsert raises in a batch, the batch still passes every other
\* record to upsert: at its end it has tried every record it had to ingest
\* (each competitor in scope was given its records, each record was tried).
C1_UpsertFailureIsolated ==
    /\ (pc = "idle" /\ log.kind \in {"startup", "reseed"} /\ log.failed > 0)
          => log.attempts = log.obtained
    /\ (BatchOver /\ log.kind \in {"fetch_sample", "fetch_live"} /\ log.failed > 0)
          => /\ log.attempts = log.obtained
             /\ log.raised \cup log.sampled \cup log.live = InScope

\* C2: the table holds one row per ad id, and each row is the record of the
\* last upsert that succeeded for its id.
C2_OneRowPerId ==
    /\ \A r1, r2 \in store : r1.id = r2.id => r1 = r2
    /\ \A r \in store : r.id \in DOMAIN log.last_ok /\ log.last_ok[r.id] = r

\* a batch has replaced a row of an id that was there with other contents
C2_Witness ==
    /\ pc = "idle"
    /\ \E r \in Persisted : \E r0 \in log.store0 : r0.id = r.id /\ r0 # r

\* C3: a fetch that ended with the authorization failure validated once and
\* did nothing else: no live fetch, no sample, no upsert, the table as before.
C3_InvalidTokenAbortsFirst ==
    response.kind = "http401" =>
        /\ log.validate_calls = 1
        /\ log.live_calls = 0
        /\ log.sample_calls = 0
        /\ log.obtained = 0
        /\ log.attempts = 0
        /\ log.raised \cup log.sampled \cup log.live = {}
        /\ store = log.store0

C3_Witness == response.kind = "http401" /\ log.store0 # {}

C5_SampleFlagPerCompetitor ==
    log.kind = "fetch_live" =>
        \A r \in Persisted :
            /\ r.competitor_name \in log.empty => r.is_sample
            /\ r.competitor_name \in log.live => ~r.is_sample

C5_Witness ==
    /\ log.kind = "fetch_live"
    /\ response.kind = "return"
    /\ log.empty = {"bombay_shaving"}
    /\ \E r \in Persisted : r.competitor_name = "bombay_shaving" /\ r.is_sample
    /\ \E r \in Persisted : r.competitor_name = "traya" /\ ~r.is_sample
    /\ \E r \in Persisted : r.competitor_name = "plum" /\ ~r.is_sample

\* C6: a fetch without a token never validates and never fetches live; when
\* it returns, it has generated samples for every competitor in scope and
\* reports success, sample_data and (competitors in scope) x 15 records.
C6_NoTokenUsesSamples ==
    log.kind = "fetch_sample" =>
        /\ log.validate_calls = 0
        /\ log.live_calls = 0
        /\ log.sampled \subseteq InScope
        /\ (response.kind = "return" /\ pc = "idle") =>
              /\ log.sampled = InScope
              /\ log.sample_calls = Cardinality(InScope)
              /\ response.status = "success"
              /\ response.source = "sample_data"
              /\ response.ads_loaded = Cardinality(InScope) * SampleCountNoToken
              /\ response.errors = <<>>

\* the scenario of the specification: one brand, its competitors, no token
C6_Witness ==
    /\ log.kind = "fetch_sample"
    /\ response.kind = "return"
    /\ brands_to_fetch = <<"man_matters">>
    /\ response.ads_loaded = 30

\* C7: a fetch ends in full success, in partial success with 1 to 5 errors
\* and ads_loaded the number of successful upserts, or in one fatal error
\* having persisted nothing.
C7_ThreeOutcomes ==
    (BatchOver /\ log.kind \in {"fetch_sample", "fetch_live"}) =>
        \/ /\ response.kind = "return"
           /\ response.status = "success"
           /\ response.errors = <<>>
           /\ log.raised = {}
        \/ /\ response.kind = "return"
           /\ response.status = "partial"
           /\ Len(response.errors) \in 1..ErrorCap
           /\ response.ads_loaded = Succeeded
        \/ /\ response.kind \in {"http401", "exception"}
           /\ Succeeded = 0

\* the raw record and the output of the last normalization
In == ad.raw

Out == ad_data[1]

\* the delivery-start and delivery-stop timestamps of the raw record, read
\* without their offsets
DeliveryStart == IF In.ad_delivery_start_time.s = "iso"
                 THEN Some(In.ad_delivery_start_time.t) ELSE None

DeliveryStop == IF In.ad_delivery_stop_time.s = "iso"
                THEN Some(In.ad_delivery_stop_time.t) ELSE None

\* the start the code uses: the creation time stands in for a delivery start
\* that is absent or empty
EffectiveStart ==
    IF In.ad_delivery_start_time.s \in {"none", "empty"}
    THEN (IF In.ad_creation_time.s = "iso" THEN Some(In.ad_creation_time.t) ELSE None)
    ELSE DeliveryStart

\* whole days from half-day reading a to half-day reading b
WholeDays(a, b) == CHOOSE d \in -40..40 : 2 * d <= b - a /\ b - a < 2 * d + 2

\* C8 as stated: run_days is the days from delivery start to delivery stop,
\* or to now without a stop, and zero without a readable delivery start.
C8_RunDaysFromDeliveryStart ==
    ad_data # None =>
        IF DeliveryStart = None THEN Out.run_days = 0
        ELSE Out.run_days =
                WholeDays(DeliveryStart[1],
                          IF DeliveryStop # None THEN DeliveryStop[1] ELSE now)

\* C8 amended: a _run_days override is taken as it is; without one, run_days
\* is the whole days from the effective start to delivery stop, or to now
\* without a stop, and zero without a readable effective start.
C8_RunDays ==
    ad_data # None =>
        IF In._run_days # None THEN Out.run_days = In._run_days[1]
        ELSE IF EffectiveStart = None THEN Out.run_days = 0
        ELSE Out.run_days =
                WholeDays(EffectiveStart[1],
                          IF DeliveryStop # None THEN DeliveryStop[1] ELSE now)

\* a record without override, delivered from a start to a stop
C8_Witness ==
    /\ ad_data # None
    /\ In._run_days = None
    /\ DeliveryStart = Some(4)
    /\ DeliveryStop = Some(11)
    /\ Out.run_days = 3

\* C9: every normalized ad, and so every row of the table, is a top performer
\* exactly when its run_days exceeds 30.
C9_TopPerformerIffOver30 ==
    /\ ad_data # None => (Out.is_top_performer <=> Out.run_days > 30)
    /\ \A r \in store : r.is_top_performer <=> r.run_days > 30

\* the table holds a top performer by override without a start time, a row
\* of exactly 30 days and a computed top performer
C9_Witness ==
    /\ \E r \in store : /\ r.is_top_performer
                        /\ r.ad_delivery_start_time = None
                        /\ r.run_days = 45
    /\ \E r \in store : ~r.is_top_performer /\ r.run_days = 30
    /\ \E r \in store : /\ r.is_top_performer
                        /\ r.ad_delivery_start_time # None
                        /\ r.id[2] = "live"

\* C10: reseed deletes first and seeds after, so during and after a reseed
\* every row is one the reseed upserted, and at its end the table is exactly
\* the records whose upsert succeeded; a startup that finds rows changes
\* nothing, a startup that finds none seeds every competitor.
C10_ReseedReplacesStore ==
    /\ log.kind = "reseed" =>
          /\ store \subseteq Range(log.upserted)
          /\ pc = "idle" =>
                /\ store = Range(log.upserted)
                /\ log.attempts = Len(seed_all_sample_data(1))
                /\ response.ads_seeded = Succeeded
    /\ (log.kind = "startup" /\ log.store0 # {}) =>
          /\ store = log.store0
          /\ log.attempts = 0
          /\ log.sample_calls = 0
    /\ (log.kind = "startup" /\ log.store0 = {} /\ pc = "idle") =>
          /\ store = Range(log.upserted)
          /\ log.attempts = Len(seed_all_sample_data(1))

\* a reseed ended and a row that was there before it is gone
C10_Witness ==
    /\ log.kind = "reseed"
    /\ pc = "idle"
    /\ response.kind = "return"
    /\ \E r0 \in log.store0 : \A r \in store : r.id # r0.id

====
